---- MODULE Spec2Model ----
(***************************************************************************)
(* Verification model of adbs (AOSC-Archive/adbs): the so-break leveling   *)
(* fragment of SuiteBuildRecipe, the name resolver find_package /          *)
(* find_packages, and the build orchestrator build / build_pkg_group /     *)
(* build_main / new_build_thread of builder.py; fetch_src, the downloader  *)
(* dispatch and VCSDownloader.get_repo of downloader.py; retry of utils.py.*)
(***************************************************************************)
EXTENDS Integers, Sequences, FiniteSets, TLC

VARIABLES
    \* ---- so-break leveling (builder.py:169-182)
    res,        \* node -> set of prerequisites, as read from v_so_breaks_dep
    gen,        \* the toposort generator's remaining mapping
    sobreaks,   \* list of levels collected so far
    circular,   \* None, then ex.data, then the sorted keys of ex.data
    tpc,        \* position inside the fragment
    \* ---- build orchestration (builder.py:252-385)
    unmet,          \* package -> its unmet dependencies, as process_deps reports them
    download_only,  \* the download_only setting shared by all build instances
    procs,          \* the build processes started so far, in order of creation
    \* ---- name resolution (builder.py:102-155)
    store,       \* the rows of the packages table, in table order
    groupfiles,  \* group name -> the lines of the file <tree>/groups/<name>
    rnames,      \* the names find_packages is called with
    rresult,     \* what the call returned or raised
    rpc,         \* position of the resolver
    \* ---- fetch_src (downloader.py:251-337)
    packages,    \* the batch: the source definition of each package
    fs,          \* the download directory: per package its file, marker and checkout
    fetch,       \* the locals of the running fetch_src call and its position
    \* ---- retry (utils.py:108-139)
    retry_args,  \* tries, delay, backoff and raises of the decorator
    f_retry,     \* the locals of the running f_retry call, the calls of f, the sleeps
    \* ---- BaseDownloader.dispatch (downloader.py:13-32)
    which,            \* program name -> shutil.which finds it
    dispatch_cached,  \* class -> its _dispatch_cached attribute
    dcall,            \* the dispatch call: class, method, classes probed, result
    \* ---- VCSDownloader.get_repo (downloader.py:124-141)
    repo         \* the arguments of get_repo, the path, the commands run so far

topoVars == <<res, gen, sobreaks, circular, tpc>>
buildVars == <<unmet, download_only, procs>>
resolveVars == <<store, groupfiles, rnames, rresult, rpc>>
fetchVars == <<packages, fs, fetch>>
retryVars == <<retry_args, f_retry>>
dispatchVars == <<which, dispatch_cached, dcall>>
repoVars == <<repo>>
nonTopoVars == <<buildVars, resolveVars, fetchVars, retryVars, dispatchVars, repoVars>>
nonBuildVars == <<topoVars, resolveVars, fetchVars, retryVars, dispatchVars, repoVars>>
nonResolveVars == <<topoVars, buildVars, fetchVars, retryVars, dispatchVars, repoVars>>
nonFetchVars == <<topoVars, buildVars, resolveVars, retryVars, dispatchVars, repoVars>>
nonRetryVars == <<topoVars, buildVars, resolveVars, fetchVars, dispatchVars, repoVars>>
nonDispatchVars == <<topoVars, buildVars, resolveVars, fetchVars, retryVars, repoVars>>
nonRepoVars == <<topoVars, buildVars, resolveVars, fetchVars, retryVars, dispatchVars>>
vars == <<topoVars, buildVars, resolveVars, fetchVars, retryVars, dispatchVars, repoVars>>

NoCircular == [kind |-> "None"]

(***************************************************************************)
(* Bounds                                                                  *)
(***************************************************************************)
NNodes == 3
MaxEdges == 4
NPkgs == 3
MaxDeps == 3
MaxBody == 2
MaxBatch == 2
MaxRuns == 2
MaxTries == 3
MaxDelay == 2
MaxBackoff == 3
MaxCalls == 3

Nodes == 1..NNodes
\* prerequisite 0 is never a key of the mapping: a prerequisite outside the node set
PrereqUniverse == 0..NNodes

(***************************************************************************)
(* Helpers that model Python builtins                                      *)
(***************************************************************************)
\* a listing of the set, largest member first
RECURSIVE sorted_descending(_)
sorted_descending(S) ==
    IF S = {} THEN <<>>
    ELSE LET m == CHOOSE x \in S : \A y \in S : y <= x
         IN <<m>> \o sorted_descending(S \ {m})

RECURSIVE sorted(_)
sorted(S) ==
    IF S = {} THEN <<>>
    ELSE LET m == CHOOSE x \in S : \A y \in S : x <= y
         IN <<m>> \o sorted(S \ {m})

\* the list as it is
not_reversed(s) == s

RECURSIVE reversed(_)
reversed(s) ==
    IF s = <<>> THEN <<>> ELSE Append(reversed(Tail(s)), Head(s))

RECURSIVE Flatten(_)
Flatten(ss) ==
    IF ss = <<>> THEN <<>> ELSE Head(ss) \o Flatten(Tail(ss))

Range(s) == {s[i] : i \in DOMAIN s}

(***************************************************************************)
(* utils.toposort (section 4.3): a generator over node -> prerequisites    *)
(***************************************************************************)
\* prerequisites outside the node set are treated as satisfied and ignored
toposort_init(data) == [k \in DOMAIN data |-> data[k] \cap DOMAIN data]

\* all nodes whose remaining prerequisite set is empty
toposort_ready(rem) == {k \in DOMAIN rem : rem[k] = {}}

\* remove the yielded nodes from the mapping and from all prerequisite sets
toposort_next(rem) ==
    LET ready == toposort_ready(rem)
    IN [k \in (DOMAIN rem) \ ready |-> rem[k] \ ready]

(***************************************************************************)
(* SuiteBuildRecipe so-break leveling, builder.py:169-182                  *)
(***************************************************************************)
PrependLevel(levels, level) == <<level>> \o levels

\* sobreaks.append(level)
AppendLevel(levels, level) == Append(levels, level)

RECURSIVE SumCard(_, _)
SumCard(f, K) ==
    IF K = {} THEN 0
    ELSE LET k == CHOOSE x \in K : TRUE
         IN Cardinality(f[k]) + SumCard(f, K \ {k})

\* the rows of v_so_breaks_dep for one package: any mapping within the bounds
IsMapping(f) ==
    \E K \in SUBSET Nodes :
        /\ f \in [K -> SUBSET PrereqUniverse]
        /\ SumCard(f, K) <= MaxEdges

\* the orchestrator is not running
IdleBuild ==
    /\ unmet = <<>>
    /\ download_only = FALSE
    /\ procs = <<>>

\* the resolver is not running
IdleResolve ==
    /\ store = <<>>
    /\ groupfiles = <<>>
    /\ rnames = <<>>
    /\ rresult = [kind |-> "none"]
    /\ rpc = "idle"

\* fetch_src is not running
IdleFetch ==
    /\ packages = <<>>
    /\ fs = <<>>
    /\ fetch = [pc |-> "idle"]

\* no decorated function is running
IdleRetry ==
    /\ retry_args = <<>>
    /\ f_retry = [pc |-> "idle"]

\* no class is dispatching
IdleDispatch ==
    /\ which = <<>>
    /\ dispatch_cached = <<>>
    /\ dcall = [pc |-> "idle"]

\* get_repo is not running
IdleRepo == repo = [pc |-> "idle"]

\* no downloader is in use
IdleDownloader == IdleDispatch /\ IdleRepo

InitTopo ==
    /\ IdleBuild
    /\ IdleResolve
    /\ IdleFetch
    /\ IdleRetry
    /\ IdleDownloader
    /\ IsMapping(res)
    /\ gen = <<>>
    /\ sobreaks = <<>>
    /\ circular = NoCircular
    /\ tpc = "query"

\* res = {k: set(v) for k, v in cur}; utils.toposort(res) is created
SoBreakQuery ==
    /\ tpc = "query"
    /\ gen' = toposort_init(res)
    /\ tpc' = "loop"
    /\ UNCHANGED <<res, sobreaks, circular>>
    /\ UNCHANGED nonTopoVars

\* for level in utils.toposort(res): sobreaks.append(level)
SoBreakLevel ==
    /\ tpc = "loop"
    /\ DOMAIN gen # {}
    /\ toposort_ready(gen) # {}
    /\ sobreaks' = AppendLevel(sobreaks, sorted(toposort_ready(gen)))
    /\ gen' = toposort_next(gen)
    /\ UNCHANGED <<res, circular, tpc>>
    /\ UNCHANGED nonTopoVars

\* the generator is exhausted: the for loop ends normally
SoBreakExhausted ==
    /\ tpc = "loop"
    /\ DOMAIN gen = {}
    /\ tpc' = "reverse"
    /\ UNCHANGED <<res, gen, sobreaks, circular>>
    /\ UNCHANGED nonTopoVars

\* except utils.CircularDependencyError as ex: circular = ex.data
SoBreakCircular ==
    /\ tpc = "loop"
    /\ DOMAIN gen # {}
    /\ toposort_ready(gen) = {}
    /\ circular' = [kind |-> "data", data |-> gen]
    /\ tpc' = "reverse"
    /\ UNCHANGED <<res, gen, sobreaks>>
    /\ UNCHANGED nonTopoVars

\* sobreaks.reverse()
SoBreakReverse ==
    /\ tpc = "reverse"
    /\ sobreaks' = reversed(sobreaks)
    /\ tpc' = "sortkeys"
    /\ UNCHANGED <<res, gen, circular>>
    /\ UNCHANGED nonTopoVars

\* if circular: circular = sorted(circular.keys())
SoBreakSortCircular ==
    /\ tpc = "sortkeys"
    /\ circular' = IF circular.kind = "data" /\ DOMAIN circular.data # {}
                   THEN [kind |-> "keys", keys |-> sorted(DOMAIN circular.data)]
                   ELSE circular
    /\ tpc' = "done"
    /\ UNCHANGED <<res, gen, sobreaks>>
    /\ UNCHANGED nonTopoVars

NextTopo ==
    \/ SoBreakQuery
    \/ SoBreakLevel
    \/ SoBreakExhausted
    \/ SoBreakCircular
    \/ SoBreakReverse
    \/ SoBreakSortCircular

SpecTopo == InitTopo /\ [][NextTopo]_vars

\* the so-break fragment is not running
IdleTopo ==
    /\ res = <<>>
    /\ gen = <<>>
    /\ sobreaks = <<>>
    /\ circular = NoCircular
    /\ tpc = "idle"

(***************************************************************************)
(* Properties of the leveling                                              *)
(***************************************************************************)
\* the nodes reachable from S along prerequisite edges between keys, in at most n steps
RECURSIVE ReachFrom(_, _, _)
ReachFrom(m, S, n) ==
    IF n = 0 THEN S
    ELSE ReachFrom(m, S \cup UNION {m[k] \cap DOMAIN m : k \in S}, n - 1)

\* some key reaches itself along prerequisite edges between keys
HasCycle(m) ==
    \E k \in DOMAIN m :
        k \in ReachFrom(m, m[k] \cap DOMAIN m, Cardinality(DOMAIN m))

\* the keys that lie on a cycle or depend, directly or not, on a key that does
Unresolvable(m) ==
    {k \in DOMAIN m :
        \E c \in ReachFrom(m, {k}, Cardinality(DOMAIN m)) :
            c \in ReachFrom(m, m[c] \cap DOMAIN m, Cardinality(DOMAIN m))}

\* the index of the level that holds node k (0 when no level holds it)
LevelOf(levels, k) ==
    IF \E i \in DOMAIN levels : k \in Range(levels[i])
    THEN CHOOSE i \in DOMAIN levels : k \in Range(levels[i])
    ELSE 0

\* C1: for an acyclic mapping the levels collected from the leveler, concatenated,
\* hold every key exactly once and nothing else, and every prerequisite that is a key
\* lies in a strictly earlier level than the node that needs it; no cycle is reported.
C1_LevelingCorrect ==
    (tpc = "reverse" /\ ~HasCycle(res)) =>
        LET flat == Flatten(sobreaks)
        IN /\ circular = NoCircular
           /\ Range(flat) = DOMAIN res
           /\ Len(flat) = Cardinality(DOMAIN res)
           /\ \A a \in DOMAIN res : \A b \in res[a] \cap DOMAIN res :
                  LevelOf(sobreaks, b) < LevelOf(sobreaks, a)

\* an acyclic mapping with an edge between keys and an ignored outside prerequisite
\* has been leveled into at least two levels
C1_Witness ==
    /\ tpc = "reverse"
    /\ ~HasCycle(res)
    /\ Len(sobreaks) >= 2
    /\ \E a \in DOMAIN res : res[a] \cap DOMAIN res # {} /\ res[a] \ DOMAIN res # {}

\* C2: a mapping with a cycle ends in a cycle report whose keys are exactly the nodes
\* left unresolved, and the caller holds no partial ordering afterwards.
C2_CycleLeavesNoOrdering ==
    (tpc = "done" /\ HasCycle(res)) =>
        /\ circular.kind = "keys"
        /\ Range(circular.keys) = Unresolvable(res)
        /\ sobreaks = <<>>

\* the part of C2 that the fragment does keep: the cycle is always reported
C2_CycleReported ==
    (tpc = "done" /\ HasCycle(res)) =>
        /\ circular.kind = "keys"
        /\ Range(circular.keys) = Unresolvable(res)

(***************************************************************************)
(* Build orchestration: build, build_pkg_group, build_main and             *)
(* new_build_thread, builder.py:252-385.  Every build instance runs in its *)
(* own process; procs[1] is the instance the command line started.         *)
(***************************************************************************)
Pkgs == 1..NPkgs
\* name 0 is a requested name that the package tree does not hold
NoError == [kind |-> "none", names |-> <<>>]

\* all orders in which the members of S can be listed
Perms(S) ==
    {f \in [1..Cardinality(S) -> S] : \A i, j \in DOMAIN f : f[i] = f[j] => i = j}

\* Finder(pkg).acbs_pkg_match(): the matched package, or nothing
acbs_pkg_match(name) == IF name \in Pkgs THEN <<name>> ELSE <<>>

\* Dependencies().process_deps(build_deps, run_deps, pkg_name): the unmet
\* dependencies of the package, in any order
process_deps(pkg) == Perms(unmet[pkg])

\* an instance that is given an empty chain whatever its parent passes
BuildCoreChainReset(parent, pkgs_name, pending) ==
    [parent |-> parent, pkgs_name |-> pkgs_name, pending |-> <<>>,
     pc |-> "build", pkgs_to_build |-> <<>>, ui |-> 0,
     try_build |-> <<>>, si |-> 0, child |-> 0, shared_error |-> FALSE,
     error |-> NoError, ab3 |-> <<>>, pkgs_done |-> <<>>, summaries |-> 0]

\* BuildCore(..., pkgs_name=[pkg], init=False, pending=...), and the instance the
\* command line starts (parent 0, pending ())
BuildCore(parent, pkgs_name, pending) ==
    [parent |-> parent, pkgs_name |-> pkgs_name, pending |-> pending,
     pc |-> "build", pkgs_to_build |-> <<>>, ui |-> 0,
     try_build |-> <<>>, si |-> 0, child |-> 0, shared_error |-> FALSE,
     error |-> NoError, ab3 |-> <<>>, pkgs_done |-> <<>>, summaries |-> 0]

\* pkg_data.pkg_name of the unit the instance is building
Unit(p) == procs[p].pkgs_to_build[procs[p].ui]

\* the dependency whose sub-build the instance started last
SubPkg(p) == procs[p].try_build[procs[p].si]

RECURSIVE CountDeps(_, _)
CountDeps(f, K) ==
    IF K = {} THEN 0
    ELSE LET k == CHOOSE x \in K : TRUE
         IN Cardinality(f[k]) + CountDeps(f, K \ {k})

\* the names given on the command line: package 1, alone or followed by another name
Requests == {<<1>>} \cup {<<1, n>> : n \in 0..NPkgs}

InitBuild ==
    /\ IdleTopo
    /\ IdleResolve
    /\ IdleFetch
    /\ IdleRetry
    /\ IdleDownloader
    /\ unmet \in [Pkgs -> SUBSET Pkgs]
    /\ CountDeps(unmet, Pkgs) <= MaxDeps
    /\ download_only \in BOOLEAN
    /\ \E names \in Requests : procs = <<BuildCore(0, names, <<>>)>>

LoopSuspectedNever(try_build, pending) == FALSE

\* a pending-chain member among the dependencies to build:
\* set(try_build).intersection(self.pending)
LoopSuspected(try_build, pending) == Range(try_build) \cap Range(pending) # {}

\* 'Dependency loop: %s' % '<->'.join(self.pending)
LoopError(pending) == [kind |-> "loop", names |-> pending]

JoinedNoWait(c) == TRUE

\* sub_thread.join(): the sub-build process has exited
Joined(c) == procs[c].pc \in {"done", "failed"}

SubBuildFailedNever(p) == FALSE

\* self.shared_error.is_set()
SubBuildFailed(p) == procs[p].shared_error

MoreSiblingsSkip(p) == FALSE

\* for sub_pkg in list(try_build): another dependency is left to build
MoreSiblings(p) == procs[p].si < Len(procs[p].try_build)

SubBuildErrorNamesUnit(p) == [kind |-> "subbuild", names |-> <<Unit(p)>>]

\* ACBSGeneralError('Sub-build process building {} failed!'.format(sub_pkg))
SubBuildError(p) == [kind |-> "subbuild", names |-> <<SubPkg(p)>>]

SignalDropped(flag) == flag

\* shared_error.set()
SignalSet(flag) == TRUE

\* a build() that matches the names only up to the first unmatched one and goes
\* on to build what it has matched
Build_MatchLazy(p) ==
    /\ procs[p].pc = "build"
    /\ LET names == procs[p].pkgs_name
           bad == {i \in DOMAIN names : acbs_pkg_match(names[i]) = <<>>}
           n == IF bad = {} THEN Len(names)
                ELSE (CHOOSE k \in bad : \A j \in bad : k <= j) - 1
       IN IF n = 0
          THEN procs' = [procs EXCEPT ![p].pc = "raising",
                     ![p].error = [kind |-> "nomatch", names |-> <<names[1]>>]]
          ELSE procs' = [procs EXCEPT ![p].pc = "unit", ![p].ui = 1,
                     ![p].pkgs_to_build =
                         Flatten([i \in 1..n |-> acbs_pkg_match(names[i])])]
    /\ UNCHANGED <<unmet, download_only>>
    /\ UNCHANGED nonBuildVars

\* build(), lines 253-267: match every requested name, fail on the first unmatched
Build_Match(p) ==
    /\ procs[p].pc = "build"
    /\ LET names == procs[p].pkgs_name
           bad == {i \in DOMAIN names : acbs_pkg_match(names[i]) = <<>>}
       IN IF bad # {}
          THEN LET i == CHOOSE k \in bad : \A j \in bad : k <= j
               IN procs' = [procs EXCEPT ![p].pc = "raising",
                      ![p].error = [kind |-> "nomatch", names |-> <<names[i]>>]]
          ELSE procs' = [procs EXCEPT ![p].pc = "unit", ![p].ui = 1,
                      ![p].pkgs_to_build =
                          Flatten([i \in DOMAIN names |-> acbs_pkg_match(names[i])])]
    /\ UNCHANGED <<unmet, download_only>>
    /\ UNCHANGED nonBuildVars

\* a loop over the units that goes on to the next unit when one fails
Build_NextUnitKeepGoing(p) ==
    /\ procs[p].pc = "unit"
    /\ procs[p].ui <= Len(procs[p].pkgs_to_build)
    /\ \E ok \in BOOLEAN :
          IF ok
          THEN procs' = [procs EXCEPT ![p].pc = "main"]
          ELSE procs' = [procs EXCEPT ![p].ui = @ + 1]
    /\ UNCHANGED <<unmet, download_only>>
    /\ UNCHANGED nonBuildVars

\* build(), line 268, and build_pkg_group up to the call of build_main: the sources
\* are fetched and unpacked, which succeeds or raises
Build_NextUnit(p) ==
    /\ procs[p].pc = "unit"
    /\ procs[p].ui <= Len(procs[p].pkgs_to_build)
    /\ \E ok \in BOOLEAN :
          IF ok
          THEN procs' = [procs EXCEPT ![p].pc = "main"]
          ELSE procs' = [procs EXCEPT ![p].pc = "raising",
                     ![p].error = [kind |-> "fetch", names |-> <<Unit(p)>>]]
    /\ UNCHANGED <<unmet, download_only>>
    /\ UNCHANGED nonBuildVars

\* build_main, lines 309-322: the dependencies to build and the loop guard;
\* new_build_thread, line 373: a new Event
BuildMain_Deps(p) ==
    /\ procs[p].pc = "main"
    /\ IF download_only
       THEN procs' = [procs EXCEPT ![p].pc = "record"]
       ELSE \E try_build \in process_deps(Unit(p)) :
              IF try_build = <<>>
              THEN procs' = [procs EXCEPT ![p].pc = "exec", ![p].try_build = <<>>]
              ELSE IF LoopSuspected(try_build, procs[p].pending)
              THEN procs' = [procs EXCEPT ![p].pc = "raising",
                         ![p].try_build = try_build,
                         ![p].error = LoopError(procs[p].pending)]
              ELSE procs' = [procs EXCEPT ![p].pc = "spawn",
                         ![p].try_build = try_build, ![p].si = 1,
                         ![p].shared_error = FALSE]
    /\ UNCHANGED <<unmet, download_only>>
    /\ UNCHANGED nonBuildVars

\* new_build_thread, lines 375-379: Process(target=slave_thread_build).start();
\* slave_thread_build, lines 362-366: the new instance
Spawn(p) ==
    /\ procs[p].pc = "spawn"
    /\ procs' = Append(
           [procs EXCEPT ![p].pc = "join", ![p].child = Len(procs) + 1],
           BuildCore(p, <<SubPkg(p)>>, Append(procs[p].pending, Unit(p))))
    /\ UNCHANGED <<unmet, download_only>>
    /\ UNCHANGED nonBuildVars

\* new_build_thread, lines 380-381: sub_thread.join() returns
Join(p) ==
    /\ procs[p].pc = "join"
    /\ Joined(procs[p].child)
    /\ procs' = [procs EXCEPT ![p].pc = "check"]
    /\ UNCHANGED <<unmet, download_only>>
    /\ UNCHANGED nonBuildVars

\* new_build_thread, lines 382-385 and the next turn of the loop at line 374
Check(p) ==
    /\ procs[p].pc = "check"
    /\ IF SubBuildFailed(p)
       THEN procs' = [procs EXCEPT ![p].pc = "raising",
                  ![p].error = SubBuildError(p)]
       ELSE IF MoreSiblings(p)
       THEN procs' = [procs EXCEPT ![p].pc = "spawn", ![p].si = @ + 1]
       ELSE procs' = [procs EXCEPT ![p].pc = "exec"]
    /\ UNCHANGED <<unmet, download_only>>
    /\ UNCHANGED nonBuildVars

\* build_main, lines 323-327: the build-execution step, which succeeds or raises
Exec(p) ==
    /\ procs[p].pc = "exec"
    /\ \E ok \in BOOLEAN :
          IF ok
          THEN procs' = [procs EXCEPT ![p].pc = "record",
                     ![p].ab3 = Append(@, Unit(p))]
          ELSE procs' = [procs EXCEPT ![p].pc = "raising",
                     ![p].ab3 = Append(@, Unit(p)),
                     ![p].error = [kind |-> "ab3", names |-> <<Unit(p)>>]]
    /\ UNCHANGED <<unmet, download_only>>
    /\ UNCHANGED nonBuildVars

\* pkg_data.subdir: package 2 keeps its build files in a numbered sub-directory
\* of its directory, the other packages in 'autobuild'
subdir(pkg) == IF pkg = 2 THEN "01-lib" ELSE "autobuild"

\* pkg_data.directory if pkg_data.subdir == 'autobuild'
\*     else '%s::%s' % (pkg_data.directory, pkg_data.subdir)
DoneEntry(pkg) ==
    IF subdir(pkg) = "autobuild" THEN <<pkg>> ELSE <<pkg, "::", subdir(pkg)>>

\* build_main, lines 328-330: self.pkgs_done.append(...); back to build(), line 268
Record(p) ==
    /\ procs[p].pc = "record"
    /\ procs' = [procs EXCEPT ![p].pc = "unit", ![p].ui = @ + 1,
                     ![p].pkgs_done = Append(@, DoneEntry(Unit(p)))]
    /\ UNCHANGED <<unmet, download_only>>
    /\ UNCHANGED nonBuildVars

\* it.find('::') > -1
IsSplit(it) == Len(it) > 1

\* list.remove(x): the list without the first x
RECURSIVE remove(_, _)
remove(list, x) ==
    IF list = <<>> THEN <<>>
    ELSE IF Head(list) = x THEN Tail(list)
    ELSE <<Head(list)>> \o remove(Tail(list), x)

\* list.insert(i, x), i counted from 0
insert(list, i, x) ==
    SubSeq(list, 1, i) \o <<x>> \o SubSeq(list, i + 1, Len(list))

\* ACBSVariables.get('timings') is None until a timed ab3 run has returned
\* (utils.time_this); with download_only no ab3 is run
timings_unset == download_only

\* print_summary, lines 287-298: the loop over self.pkgs_done, k the place of the
\* list iterator; the outer prev_group_name stays None, swap_vars assigns its own
\* parameter, so line 290-291 never inserts.  The list after line 298, or the
\* TypeError of reading None[i] at line 295
RECURSIVE print_summary_loop(_, _, _, _)
print_summary_loop(pkgs_done, k, i, group_name) ==
    IF k > Len(pkgs_done)
    THEN [kind |-> "ok",
          pkgs_done |-> IF group_name # <<>>
                        THEN insert(pkgs_done, i, group_name)
                        ELSE pkgs_done]
    ELSE LET it == pkgs_done[k]
         IN IF ~IsSplit(it)
            THEN print_summary_loop(pkgs_done, k + 1, i, group_name)
            ELSE IF it[3] = "autobuild"
            THEN print_summary_loop(remove(pkgs_done, it), k + 1, i + 1, <<it[1]>>)
            ELSE IF timings_unset THEN [kind |-> "TypeError"]
            ELSE print_summary_loop(pkgs_done, k + 1, i + 1, <<it[1]>>)

\* print_summary(), line 277-280: i = 0, group_name = None
print_summary(pkgs_done) == print_summary_loop(pkgs_done, 1, 0, <<>>)

\* build(), lines 271-274: the summary, return 0
Summary(p) ==
    /\ procs[p].pc = "unit"
    /\ procs[p].ui > Len(procs[p].pkgs_to_build)
    /\ LET r == print_summary(procs[p].pkgs_done)
       IN IF r.kind = "ok"
          THEN procs' = [procs EXCEPT ![p].pc = "done",
                     ![p].pkgs_done = r.pkgs_done, ![p].summaries = @ + 1]
          ELSE procs' = [procs EXCEPT ![p].pc = "raising",
                     ![p].error = [kind |-> "summary", names |-> <<>>]]
    /\ UNCHANGED <<unmet, download_only>>
    /\ UNCHANGED nonBuildVars

\* an exception leaves build(): slave_thread_build, lines 368-370, sets the
\* parent's Event and re-raises; the process ends
Raise(p) ==
    /\ procs[p].pc = "raising"
    /\ LET q == procs[p].parent
       IN IF q = 0
          THEN procs' = [procs EXCEPT ![p].pc = "failed"]
          ELSE procs' = [procs EXCEPT ![p].pc = "failed",
                     ![q].shared_error = SignalSet(@)]
    /\ UNCHANGED <<unmet, download_only>>
    /\ UNCHANGED nonBuildVars

NextBuild ==
    \/ \E p \in DOMAIN procs : Build_Match(p)
    \/ \E p \in DOMAIN procs : Build_NextUnit(p)
    \/ \E p \in DOMAIN procs : BuildMain_Deps(p)
    \/ \E p \in DOMAIN procs : Spawn(p)
    \/ \E p \in DOMAIN procs : Join(p)
    \/ \E p \in DOMAIN procs : Check(p)
    \/ \E p \in DOMAIN procs : Exec(p)
    \/ \E p \in DOMAIN procs : Record(p)
    \/ \E p \in DOMAIN procs : Summary(p)
    \/ \E p \in DOMAIN procs : Raise(p)

SpecBuild == InitBuild /\ [][NextBuild]_vars

\* every process that can take a step is scheduled: a process waiting in join()
\* is the only one that cannot, and the operating system runs the others
SpecBuildLive == SpecBuild /\ WF_vars(NextBuild)

(***************************************************************************)
(* Properties of the orchestration                                         *)
(***************************************************************************)
Children(p) == {c \in DOMAIN procs : procs[c].parent = p}

Live(c) == procs[c].pc \notin {"done", "failed"}

\* a is b with some members left out
RECURSIVE IsSubsequence(_, _)
IsSubsequence(a, b) ==
    IF a = <<>> THEN TRUE
    ELSE IF b = <<>> THEN FALSE
    ELSE IF Head(a) = Head(b) THEN IsSubsequence(Tail(a), Tail(b))
    ELSE IsSubsequence(a, Tail(b))

\* the last n children of p, oldest first
LastChildren(p, n) ==
    LET ids == sorted(Children(p))
    IN SubSeq(ids, Len(ids) - n + 1, Len(ids))

\* C3: when the dependencies to build meet the pending chain, the dependency-loop
\* error names all loop members in chain order (the unit being built included), no
\* sub-build is started for that unit and its build-execution step is not invoked.
C3_LoopErrorNamesMembers ==
    \A p \in DOMAIN procs :
        procs[p].error.kind = "loop" =>
            /\ Range(procs[p].try_build) \cap Range(procs[p].pending)
                   \subseteq Range(procs[p].error.names)
            /\ Unit(p) \in Range(procs[p].error.names)
            /\ IsSubsequence(procs[p].error.names,
                             Append(procs[p].pending, Unit(p)))
            /\ Children(p) = {}
            /\ procs[p].ab3 = <<>>

\* the part of C3 that build_main does keep: the guard stops the unit
C3_LoopGuardStops ==
    \A p \in DOMAIN procs :
        procs[p].error.kind = "loop" =>
            /\ LoopSuspected(procs[p].try_build, procs[p].pending)
            /\ procs[p].error.names = procs[p].pending
            /\ Children(p) = {}
            /\ procs[p].ab3 = <<>>

\* C4: no sub-build of a parent is started after a failed sub-build of that parent,
\* and once the parent has read the signal after the failed one it is aborting.
C4_FailureShortCircuit ==
    \A p \in DOMAIN procs : \A c \in Children(p) :
        procs[c].pc = "failed" =>
            /\ \A d \in Children(p) : d <= c
            /\ procs[p].pc \in {"join", "check", "raising", "failed"}
            /\ procs[p].pc \in {"raising", "failed"} =>
                   procs[p].error.kind = "subbuild"

\* the first of three sibling dependencies failed and the parent has aborted with
\* only that one sub-build started
C4_Witness ==
    \E p \in DOMAIN procs :
        /\ Len(procs[p].try_build) = 3
        /\ procs[p].si = 1
        /\ procs[p].pc = "failed"
        /\ Cardinality(Children(p)) = 1
        /\ \A c \in Children(p) : procs[c].pc = "failed"

\* C5: a parent has at most one running sub-build, which it is joining; the running
\* processes form one chain in which only the deepest one is not waiting for a child.
C5_SequentialSiblings ==
    /\ \A p \in DOMAIN procs :
          Cardinality({c \in Children(p) : Live(c)}) <= 1
    /\ \A c \in DOMAIN procs :
          (Live(c) /\ procs[c].parent # 0) =>
              /\ procs[procs[c].parent].pc = "join"
              /\ procs[procs[c].parent].child = c
    /\ \A c, d \in Children(0) : c = d
    /\ Cardinality({c \in DOMAIN procs : Live(c) /\ procs[c].pc # "join"}) <= 1
    /\ \A p \in DOMAIN procs : \A c, d \in Children(p) :
          c < d => ~Live(c)

\* a second sibling is running, after the first has exited, with a sub-build of its own
C5_Witness ==
    \E p, c, d, e \in DOMAIN procs :
        /\ procs[c].parent = p /\ procs[d].parent = p /\ c < d
        /\ procs[c].pc = "done"
        /\ procs[e].parent = d
        /\ Live(e) /\ procs[e].pc = "exec"

\* C6: when the build-execution step of a unit has just been invoked, every one of
\* its dependencies to build has had its own sub-build, each run to completion, the
\* failure signal is unset and no sub-build of the instance is running or has failed.
C6_ExecAfterDeps ==
    \A p \in DOMAIN procs :
        ((procs[p].pc = "record" /\ ~download_only)
           \/ procs[p].error.kind = "ab3") =>
            LET tb == procs[p].try_build
                kids == LastChildren(p, Len(tb))
            IN /\ Len(procs[p].ab3) = procs[p].ui
               /\ Cardinality(Children(p)) >= Len(tb)
               /\ Len(kids) = Len(tb)
               /\ \A i \in DOMAIN tb :
                     /\ procs[kids[i]].pkgs_name = <<tb[i]>>
                     /\ procs[kids[i]].pc = "done"
               /\ ~procs[p].shared_error
               /\ \A c \in Children(p) : procs[c].pc = "done"

\* a unit with two dependencies to build has been executed
C6_Witness ==
    \E p \in DOMAIN procs :
        /\ procs[p].pc = "record"
        /\ Len(procs[p].try_build) = 2
        /\ Len(procs[p].ab3) = 1

\* C7: once the parent of a failed sub-build has read the signal it is failing with
\* an error that names that dependency, without having executed the unit it was
\* building; no ancestor of a failed sub-build ever completes.
C7_FailurePropagates ==
    \A c \in DOMAIN procs :
        (procs[c].pc = "failed" /\ procs[c].parent # 0) =>
            LET q == procs[c].parent
            IN /\ procs[q].pc \in {"join", "check", "raising", "failed"}
               /\ procs[q].pc \in {"raising", "failed"} =>
                     /\ procs[q].error = [kind |-> "subbuild",
                                          names |-> procs[c].pkgs_name]
                     /\ Len(procs[q].ab3) = procs[q].ui - 1
                     /\ Len(procs[q].pkgs_done) = procs[q].ui - 1

\* a failure two levels down has reached the instance the command line started
C7_Witness ==
    \E c, d \in DOMAIN procs :
        /\ procs[d].parent = c /\ procs[c].parent = 1
        /\ procs[d].pc = "failed" /\ procs[d].error.kind \in {"ab3", "loop", "fetch"}
        /\ procs[c].pc = "failed" /\ procs[1].pc = "failed"
        /\ procs[1].error.names = procs[c].pkgs_name

\* the state part of the failure-signal property: unset whenever a sub-build is
\* started, set only when a sub-build of that parent has failed, at most one failed
\* sub-build, and at each read set exactly when a finished sub-build failed
C8_SignalState ==
    \A p \in DOMAIN procs :
        LET failed == {c \in Children(p) : procs[c].pc = "failed"}
        IN /\ procs[p].pc = "spawn" => ~procs[p].shared_error
           /\ procs[p].shared_error => failed # {}
           /\ Cardinality(failed) <= 1
           /\ procs[p].pc = "check" => (procs[p].shared_error <=> failed # {})

\* C8: the failure signal is unset at every start of a sub-build, set only by a
\* failed sub-build and by at most one, read true exactly when a finished sub-build
\* of the parent failed (the state part above), and never cleared once set.
C8_FailureSignal ==
    /\ []C8_SignalState
    /\ [][\A p \in DOMAIN procs :
              procs[p].shared_error => procs'[p].shared_error]_vars

\* a parent reads a set signal after its second sub-build, the first having succeeded
C8_Witness ==
    \E p \in DOMAIN procs :
        /\ procs[p].pc = "check"
        /\ procs[p].shared_error
        /\ procs[p].si = 2
        /\ Cardinality(Children(p)) = 2

(***************************************************************************)
(* Name resolution: SuiteBuildRecipe.find_package and find_packages,       *)
(* builder.py:102-155.  A string is the sequence of its tokens: words, and *)
(* the separators "/", "-" and the line end "\n".                          *)
(***************************************************************************)
PyNone == <<"<None>">>

\* the truth value Python gives a string or None
Truthy(x) == x # PyNone /\ x # <<>>

RECURSIVE FirstIndex(_, _, _)
FirstIndex(str, tok, i) ==
    IF i > Len(str) THEN 0
    ELSE IF str[i] = tok THEN i
    ELSE FirstIndex(str, tok, i + 1)

\* str.split(sep, 1)
split1(str, sep) ==
    LET i == FirstIndex(str, sep, 1)
    IN IF i = 0 THEN <<str>>
       ELSE <<SubSeq(str, 1, i - 1), SubSeq(str, i + 1, Len(str))>>

\* str.startswith(prefix)
startswith(str, prefix) ==
    Len(str) >= Len(prefix) /\ SubSeq(str, 1, Len(prefix)) = prefix

\* str.strip(): the line without the white space at its ends
RECURSIVE strip(_)
strip(ln) ==
    IF ln = <<>> THEN ln
    ELSE IF Head(ln) = "\n" THEN strip(Tail(ln))
    ELSE IF ln[Len(ln)] = "\n" THEN strip(SubSeq(ln, 1, Len(ln) - 1))
    ELSE ln

\* abbsmeta.abbs_categories: the category prefixes of section paths
abbs_categories == {<<"base", "-">>, <<"core", "-">>, <<"extra", "-">>}

\* find_package, lines 104-113: category, section and directory of a name
ParseName(name) ==
    LET namespl == split1(name, "/")
    IN IF Len(namespl) = 1
       THEN [category |-> PyNone, section |-> PyNone, directory |-> name]
       ELSE LET secpath == namespl[1]
                directory == namespl[2]
            IN IF \E x \in abbs_categories : startswith(secpath, x)
               THEN [category |-> split1(secpath, "-")[1],
                     section |-> split1(secpath, "-")[2],
                     directory |-> directory]
               ELSE [category |-> PyNone, section |-> secpath,
                     directory |-> directory]

\* the WHERE clause of lines 114-127
RowMatches(row, q) ==
    /\ row.directory = q.directory
    /\ Truthy(q.section) => row.section = q.section
    /\ Truthy(q.category) => row.category = q.category

\* coalesce(category || '-', '') || section || '/' || directory
src_name(row) ==
    (IF row.category = PyNone THEN <<>> ELSE row.category \o <<"-">>)
        \o row.section \o <<"/">> \o row.directory

NotFound(name) == [kind |-> "ValueError", what |-> "not found", name |-> name]

\* a lookup that tests the group conditions of line 129 before the row of line 127
find_package_group_first(name, try_group) ==
    LET q == ParseName(name)
        rows == {i \in DOMAIN store : RowMatches(store[i], q)}
    IN IF q.section = <<"groups">> \/ (try_group /\ q.section = PyNone)
       THEN [kind |-> "ok", isgroup |-> TRUE, result |-> q.directory]
       ELSE IF rows # {}
       THEN [kind |-> "ok", isgroup |-> FALSE,
             result |-> src_name(store[CHOOSE i \in rows : \A j \in rows : i <= j])]
       ELSE NotFound(name)

\* find_package(name, try_group): (result, isgroup), or ValueError
find_package(name, try_group) ==
    LET q == ParseName(name)
        rows == {i \in DOMAIN store : RowMatches(store[i], q)}
    IN IF rows # {}
       THEN [kind |-> "ok", isgroup |-> FALSE,
             result |-> src_name(store[CHOOSE i \in rows : \A j \in rows : i <= j])]
       ELSE IF q.section = <<"groups">> \/ (try_group /\ q.section = PyNone)
       THEN [kind |-> "ok", isgroup |-> TRUE, result |-> q.directory]
       ELSE NotFound(name)

\* find_packages, lines 136-143: the names sorted into packages and groups
RECURSIVE Partition(_, _, _, _)
Partition(names, try_group, src_packages, groups) ==
    IF names = <<>>
    THEN [kind |-> "ok", src_packages |-> src_packages, groups |-> groups]
    ELSE LET r == find_package(Head(names), try_group)
         IN IF r.kind # "ok" THEN r
            ELSE IF r.isgroup
            THEN Partition(Tail(names), try_group, src_packages,
                           Append(groups, r.result))
            ELSE Partition(Tail(names), try_group,
                           Append(src_packages, r.result), groups)

\* line 148: os.path.join(self.tree, 'groups', directory), evaluated with the names
\* bound in find_packages; a name that is not bound raises NameError
groupfile(scope) ==
    IF "directory" \in DOMAIN scope
    THEN [kind |-> "path", group |-> scope.directory]
    ELSE [kind |-> "NameError", name |-> "directory"]

\* os.path.isfile(groupfile)
isfile(path) == path.group \in DOMAIN groupfiles

\* [ln.strip() for ln in f]
readlines(path) ==
    [i \in DOMAIN groupfiles[path.group] |-> strip(groupfiles[path.group][i])]

\* find_packages(names, group_path): the list of source packages, or the error raised
RECURSIVE find_packages(_, _)
RECURSIVE ExpandGroups(_, _, _, _)
find_packages(names, group_path) ==
    LET part == Partition(names, group_path = <<>>, <<>>, <<>>)
    IN IF part.kind # "ok" THEN part
       ELSE ExpandGroups(names, part.groups, part.src_packages, group_path)

\* find_packages, lines 144-155: the loop over the groups
ExpandGroups(names, groups, src_packages, group_path) ==
    IF groups = <<>> THEN [kind |-> "ok", value |-> src_packages]
    ELSE LET group == Head(groups)
             scope == [names |-> names, group_path |-> group_path,
                       src_packages |-> src_packages, groups |-> groups,
                       group |-> group]
             path == groupfile(scope)
         IN IF group \in Range(group_path)
            THEN [kind |-> "ValueError", what |-> "group dependency loop",
                  group_path |-> group_path, group |-> group]
            ELSE IF path.kind = "NameError" THEN path
            ELSE IF isfile(path)
            THEN LET sub == find_packages(readlines(path),
                                          Append(group_path, group))
                 IN IF sub.kind # "ok" THEN sub
                    ELSE ExpandGroups(readlines(path), Tail(groups),
                                      src_packages \o sub.value, group_path)
            ELSE NotFound(group)

\* the rows the packages table can hold
RowA == [category |-> <<"extra">>, section |-> <<"devel">>, directory |-> <<"a">>]
RowB == [category |-> PyNone, section |-> <<"sys", "-", "devel">>, directory |-> <<"b">>]
RowG == [category |-> <<"extra">>, section |-> <<"devel">>, directory |-> <<"g">>]

\* a line of a group file that names nothing: an empty line and a comment
BlankLine == <<>>
CommentLine == <<"#", "a">>

\* the names a group file can list, one per line
Members ==
    {<<"a">>, <<"b">>, <<"h">>, <<"groups", "/", "h">>, <<"groups", "/", "g">>,
     BlankLine, CommentLine}

\* the names find_packages is called with
RequestNames ==
    {<<<<"g">>>>, <<<<"groups", "/", "g">>>>, <<<<"h">>>>, <<<<"a">>>>,
     <<<<"extra", "-", "devel", "/", "a">>>>, <<<<"sys", "-", "devel", "/", "b">>>>,
     <<<<"devel", "/", "a">>>>, <<<<"x">>>>, <<<<"devel", "/", "x">>>>,
     <<<<"g">>, <<"a">>>>, <<<<"a">>, <<"x">>>>}

\* the files of <tree>/groups: g and h, each absent or a list of at most MaxBody
\* lines; h, the file that g can list, is one line shorter
Bodies ==
    UNION {[1..n -> {m \o <<"\n">> : m \in Members}] : n \in 0..MaxBody}

InitResolve ==
    /\ IdleTopo
    /\ IdleBuild
    /\ IdleFetch
    /\ IdleRetry
    /\ IdleDownloader
    /\ store \in {<<RowA, RowB>>, <<RowA, RowB, RowG>>}
    /\ \E D \in SUBSET {<<"g">>, <<"h">>} : groupfiles \in [D -> Bodies]
    /\ <<"h">> \in DOMAIN groupfiles => Len(groupfiles[<<"h">>]) < MaxBody
    /\ rnames \in RequestNames
    /\ rresult = [kind |-> "none"]
    /\ rpc = "call"

\* find_packages(names) is called by the recipe
Resolve ==
    /\ rpc = "call"
    /\ rresult' = find_packages(rnames, <<>>)
    /\ rpc' = "done"
    /\ UNCHANGED <<store, groupfiles, rnames>>
    /\ UNCHANGED nonResolveVars

\* find_package(name, try_group) is called for one name
FindPackage ==
    /\ rpc = "call"
    /\ Len(rnames) = 1
    /\ \E try_group \in BOOLEAN :
           rresult' = [kind |-> "found", try_group |-> try_group,
                       value |-> find_package(rnames[1], try_group)]
    /\ rpc' = "found"
    /\ UNCHANGED <<store, groupfiles, rnames>>
    /\ UNCHANGED nonResolveVars

NextResolve ==
    \/ Resolve
    \/ FindPackage

SpecResolve == InitResolve /\ [][NextResolve]_vars

(***************************************************************************)
(* Properties of the name resolution                                       *)
(***************************************************************************)
Line(name) == name \o <<"\n">>

\* C9: with G listing [A, H] and H listing [B] by their bare names, and A and B
\* packages of the store, find_packages([G]) returns exactly [A, B] in that order.
C9_NestedGroupExpanded ==
    (/\ rpc = "done"
     /\ rnames = <<<<"g">>>>
     /\ store = <<RowA, RowB>>
     /\ DOMAIN groupfiles = {<<"g">>, <<"h">>}
     /\ groupfiles[<<"g">>] = <<Line(<<"a">>), Line(<<"h">>)>>
     /\ groupfiles[<<"h">>] = <<Line(<<"b">>)>>) =>
        /\ rresult.kind = "ok"
        /\ rresult.value = <<src_name(RowA), src_name(RowB)>>

\* what find_packages does instead: every call that reaches a group that is not
\* on the group path ends in NameError, whatever the group files hold
C9_GroupRaisesNameError ==
    (rpc = "done" /\ Partition(rnames, TRUE, <<>>, <<>>).kind = "ok"
         /\ Partition(rnames, TRUE, <<>>, <<>>).groups # <<>>) =>
        rresult = [kind |-> "NameError", name |-> "directory"]

\* C10: a group that reaches itself through membership (S = [S], or G -> H -> G,
\* the members written with the group marker) makes find_packages fail with the
\* group-loop error that names the group path and the repeated group.
C10_GroupCycleDetected ==
    (/\ rpc = "done"
     /\ rnames = <<<<"g">>>>
     /\ store = <<RowA, RowB>>
     /\ <<"g">> \in DOMAIN groupfiles
     /\ \/ groupfiles[<<"g">>] = <<Line(<<"groups", "/", "g">>)>>
        \/ /\ <<"h">> \in DOMAIN groupfiles
           /\ groupfiles[<<"g">>] = <<Line(<<"groups", "/", "h">>)>>
           /\ groupfiles[<<"h">>] = <<Line(<<"groups", "/", "g">>)>>) =>
        /\ rresult.kind = "ValueError"
        /\ rresult.what = "group dependency loop"
        /\ rresult.group = <<"g">>
        /\ rresult.group_path \in {<<<<"g">>>>, <<<<"g">>, <<"h">>>>}

\* the part of C10 that holds: no call ends with a group expanded while it is on
\* the group path, and every call ends
C10_NoGroupExpandedTwice ==
    rpc = "done" =>
        /\ rresult.kind \in {"ok", "ValueError", "NameError"}
        /\ rresult.kind = "ok" =>
               Partition(rnames, TRUE, <<>>, <<>>).groups = <<>>

\* the spellings of a package of the store: its directory, section/directory and,
\* for a package with a category, category-section/directory
NamesOf(row) ==
    {row.directory, row.section \o <<"/">> \o row.directory}
        \cup (IF row.category = PyNone THEN {}
              ELSE {row.category \o <<"-">> \o row.section \o <<"/">> \o row.directory})

\* C11: when the store holds a package that the name spells (bare directory,
\* section/directory or category-section/directory), find_package returns the
\* canonical name of such a package with isgroup false, whatever try_group is and
\* whether or not a group file of the same name exists.
C11_PackageBeforeGroup ==
    rpc = "found" =>
        LET hits == {i \in DOMAIN store : rnames[1] \in NamesOf(store[i])}
        IN hits # {} =>
               /\ rresult.value.kind = "ok"
               /\ ~rresult.value.isgroup
               /\ rresult.value.result \in {src_name(store[i]) : i \in hits}

\* a bare name that is both a package of the store and a group file, looked up
\* with try_group true, has come back as the package
C11_Witness ==
    /\ rpc = "found"
    /\ rnames = <<<<"g">>>>
    /\ store = <<RowA, RowB, RowG>>
    /\ <<"g">> \in DOMAIN groupfiles
    /\ rresult.try_group
    /\ rresult.value = [kind |-> "ok", isgroup |-> FALSE, result |-> src_name(RowG)]

\* the name spells no package of the store
Unmatched(name) == \A i \in DOMAIN store : name \notin NamesOf(store[i])

\* the name is written with a section, and with the section 'groups'
HasSection(name) == "/" \in Range(name)
InGroupsSection(name) == startswith(name, <<"groups", "/">>)

\* the part of C12 about one lookup: a name that spells no package comes back as
\* a group exactly when its section is 'groups', or it has no section and
\* try_group is true; otherwise the lookup fails with the not-found error that
\* carries the name as it was given
C12_LookupRule ==
    (rpc = "found" /\ Unmatched(rnames[1])) =>
        IF InGroupsSection(rnames[1])
              \/ (~HasSection(rnames[1]) /\ rresult.try_group)
        THEN rresult.value.kind = "ok" /\ rresult.value.isgroup
        ELSE rresult.value = NotFound(rnames[1])

\* C12: a name that matches no package is a group exactly when its section is
\* 'groups' or it has no section and try_group is true, and is otherwise rejected
\* with the not-found error carrying the input; and find_packages of a name taken
\* as a group that has no group file fails with the not-found error naming it.
C12_GroupOrNotFound ==
    /\ C12_LookupRule
    /\ (/\ rpc = "done"
        /\ Len(rnames) = 1
        /\ Unmatched(rnames[1])
        /\ InGroupsSection(rnames[1]) \/ ~HasSection(rnames[1])
        /\ ParseName(rnames[1]).directory \notin DOMAIN groupfiles) =>
           /\ rresult.kind = "ValueError"
           /\ rresult.what = "not found"
           /\ rresult.name \in {rnames[1], ParseName(rnames[1]).directory}

\* the canonical name of the package that the name spells
PackageOf(name) ==
    src_name(store[CHOOSE i \in DOMAIN store :
                       /\ name \in NamesOf(store[i])
                       /\ \A j \in DOMAIN store :
                              name \in NamesOf(store[j]) => i <= j])

\* the name written on a line of a group file
NameOn(ln) == SelectSeq(ln, LAMBDA tok : tok # "\n")

\* a group whose file lists packages only
IsFlatGroup(name) ==
    /\ Unmatched(name)
    /\ name \in DOMAIN groupfiles
    /\ \A i \in DOMAIN groupfiles[name] : ~Unmatched(NameOn(groupfiles[name][i]))

\* what one input stands for: a package itself, a group its members in file order
Expansion(name) ==
    IF ~Unmatched(name) THEN <<PackageOf(name)>>
    ELSE [i \in DOMAIN groupfiles[name] |-> PackageOf(NameOn(groupfiles[name][i]))]

\* C13: find_packages returns the concatenation, in input order, of what each
\* input stands for: a package at its own position, the members of a group at the
\* position of the group ([G, A] with G = [B] gives [B, A]), duplicates kept.
C13_InputOrderConcatenation ==
    (/\ rpc = "done"
     /\ \A i \in DOMAIN rnames : ~Unmatched(rnames[i]) \/ IsFlatGroup(rnames[i])) =>
        rresult = [kind |-> "ok",
                   value |-> Flatten([i \in DOMAIN rnames |-> Expansion(rnames[i])])]

\* a line that names nothing
IsNoise(ln) == NameOn(ln) \in {BlankLine, CommentLine}

\* the lines of a group file that name something
Named(body) == SelectSeq(body, LAMBDA ln : ~IsNoise(ln))

\* C14: blank lines and comment lines of a group file are ignored: a file with
\* such lines resolves to the same list as the file without them, and the
\* resolution does not fail because of them.
C14_NoiseLinesIgnored ==
    (/\ rpc = "done"
     /\ rnames = <<<<"g">>>>
     /\ Unmatched(<<"g">>)
     /\ <<"g">> \in DOMAIN groupfiles
     /\ \E i \in DOMAIN groupfiles[<<"g">>] : IsNoise(groupfiles[<<"g">>][i])
     /\ \A i \in DOMAIN groupfiles[<<"g">>] :
            \/ IsNoise(groupfiles[<<"g">>][i])
            \/ ~Unmatched(NameOn(groupfiles[<<"g">>][i]))) =>
        rresult = [kind |-> "ok",
                   value |-> [i \in DOMAIN Named(groupfiles[<<"g">>]) |->
                                 PackageOf(NameOn(Named(groupfiles[<<"g">>])[i]))]]

\* what the loading of line 151 does instead: every line of the file, blank and
\* comment lines included, is passed on as a name
C14_LinesKept ==
    \A g \in DOMAIN groupfiles :
        LET lines == readlines([kind |-> "path", group |-> g])
        IN /\ Len(lines) = Len(groupfiles[g])
           /\ \A i \in DOMAIN lines : lines[i] = NameOn(groupfiles[g][i])

(***************************************************************************)
(* Properties of build(): matching, unit order, summary and ledger         *)
(***************************************************************************)
\* C15: every requested name is matched before any unit is built: an instance
\* with a name that matches nothing fails with the no-match error and has started
\* no unit, no sub-build and no build-execution step, not even for the names
\* before the unmatched one.
C15_ResolveBeforeBuild ==
    \A p \in DOMAIN procs :
        (\E i \in DOMAIN procs[p].pkgs_name : procs[p].pkgs_name[i] \notin Pkgs) =>
            /\ procs[p].pc \in {"build", "raising", "failed"}
            /\ procs[p].pc # "build" => procs[p].error.kind = "nomatch"
            /\ procs[p].ui = 0
            /\ procs[p].ab3 = <<>>
            /\ procs[p].pkgs_done = <<>>
            /\ Children(p) = {}

\* build() of a matching name followed by an unmatched one has failed
C15_Witness ==
    /\ procs[1].pkgs_name = <<1, 0>>
    /\ procs[1].pc = "failed"
    /\ procs[1].error = [kind |-> "nomatch", names |-> <<0>>]

\* the units of an instance are taken in the order of pkgs_to_build: the units
\* before the current one are the executed ones, in order, and every sub-build
\* still running belongs to the current unit
C16_UnitOrderState ==
    \A p \in DOMAIN procs :
        LET b == procs[p]
        IN /\ b.ui <= Len(b.pkgs_to_build) + 1
           /\ b.ui = 0 => b.pkgs_to_build = <<>> /\ b.ab3 = <<>>
           /\ b.ui > 0 =>
                 /\ b.pkgs_to_build = b.pkgs_name
                 /\ ~download_only =>
                        /\ Len(b.ab3) \in {b.ui - 1, b.ui}
                        /\ Len(b.ab3) <= Len(b.pkgs_to_build)
                        /\ b.ab3 = SubSeq(b.pkgs_to_build, 1, Len(b.ab3))
           /\ \A c \in Children(p) :
                 Live(c) =>
                     /\ b.pc = "join"
                     /\ procs[c].pending = Append(b.pending, Unit(p))

\* C16: the units are built in exactly the order of the matched list: unit i+1 is
\* started only when unit i has been recorded as finished, and an instance in
\* which a unit has failed starts no further unit, sub-build or execution step.
C16_UnitsInOrder ==
    /\ []C16_UnitOrderState
    /\ [][\A p \in DOMAIN procs :
              /\ procs'[p].ui # procs[p].ui =>
                     /\ procs'[p].ui = procs[p].ui + 1
                     /\ procs[p].pc \in {"build", "record"}
              /\ procs[p].pc \in {"raising", "failed"} =>
                     /\ procs'[p].pc \in {"raising", "failed"}
                     /\ procs'[p].ui = procs[p].ui
                     /\ procs'[p].ab3 = procs[p].ab3
                     /\ Children(p) = {c \in DOMAIN procs' : procs'[c].parent = p}]_vars

\* both units of a two-unit request have been executed, the first before the second
C16_Witness ==
    /\ procs[1].pkgs_to_build = <<1, 3>>
    /\ procs[1].ab3 = <<1, 3>>
    /\ procs[1].pc = "done"

\* C17: the sub-builds of one unit are started in the sorted order of its set of
\* dependencies to build, whatever the order in which process_deps listed them.
C17_SortedSubBuilds ==
    \A p \in DOMAIN procs :
        procs[p].pc \in {"join", "check"} =>
            LET started == [i \in 1..procs[p].si |->
                               procs[LastChildren(p, procs[p].si)[i]].pkgs_name[1]]
            IN started = SubSeq(sorted(Range(procs[p].try_build)), 1, procs[p].si)

\* what new_build_thread does: the sub-builds are started in the order of the
\* list that process_deps returned
C17_ListOrderSubBuilds ==
    \A p \in DOMAIN procs :
        procs[p].pc \in {"join", "check"} =>
            \A i \in 1..procs[p].si :
                procs[LastChildren(p, procs[p].si)[i]].pkgs_name
                    = <<procs[p].try_build[i]>>

(***************************************************************************)
(* Properties of the leveling: order inside a level and a cycle report     *)
(***************************************************************************)
\* the members of the list ascend strictly
IsAscending(seq) == \A i, j \in DOMAIN seq : i < j => seq[i] < seq[j]

\* the number of the level a resolvable key belongs to: one more than the
\* greatest level of its prerequisites among the keys
RECURSIVE Depth(_, _)
Depth(m, k) ==
    LET pre == m[k] \cap DOMAIN m
        d == {Depth(m, b) : b \in pre}
    IN IF pre = {} THEN 1
       ELSE 1 + CHOOSE x \in d : \A y \in d : y <= x

\* C18: every level is sorted and a cycle report lists its keys in sorted order,
\* so the levels and the report are fixed by the input mapping alone: level i is
\* the ascending list of the resolvable keys of depth i, the report the ascending
\* list of the unresolvable keys.
C18_SortedLevelsAndReport ==
    /\ \A i \in DOMAIN sobreaks : IsAscending(sobreaks[i])
    /\ tpc = "reverse" =>
          /\ \A k \in DOMAIN res \ Unresolvable(res) :
                 /\ Depth(res, k) \in DOMAIN sobreaks
                 /\ k \in Range(sobreaks[Depth(res, k)])
          /\ \A i \in DOMAIN sobreaks :
                 Range(sobreaks[i]) =
                     {k \in DOMAIN res \ Unresolvable(res) : Depth(res, k) = i}
    /\ (tpc = "done" /\ circular.kind # "None") =>
          /\ circular.kind = "keys"
          /\ IsAscending(circular.keys)
          /\ Range(circular.keys) = Unresolvable(res)

\* a level of two keys has been collected and a cycle reported
C18_Witness ==
    /\ tpc = "done"
    /\ circular.kind = "keys"
    /\ \E i \in DOMAIN sobreaks : Len(sobreaks[i]) >= 2

\* C19: build() emits the build summary exactly once in both outcomes, when all
\* units have finished and when the run stops at the first failure, and its
\* result tells success from failure.
C19_SummaryInBothOutcomes ==
    \A p \in DOMAIN procs :
        /\ procs[p].summaries <= 1
        /\ (procs[p].pc \in {"done", "failed"} /\ procs[p].ui >= 1) =>
               procs[p].summaries = 1
        /\ procs[p].pc = "done" => procs[p].error = NoError
        /\ procs[p].pc = "failed" => procs[p].error # NoError

\* what build() does: the summary is emitted once and only when every unit has
\* finished; a failed build() has emitted none
C19_SummaryOnSuccessOnly ==
    \A p \in DOMAIN procs :
        /\ procs[p].summaries = (IF procs[p].pc = "done" THEN 1 ELSE 0)
        /\ procs[p].pc = "done" =>
               /\ procs[p].error = NoError
               /\ procs[p].ui = Len(procs[p].pkgs_to_build) + 1
        /\ procs[p].pc = "failed" => procs[p].error # NoError

\* a is the beginning of b
IsPrefix(a, b) == Len(a) <= Len(b) /\ a = SubSeq(b, 1, Len(a))

\* C20: the record of build outcomes is append-only with one entry per attempted
\* unit, failed attempts included: an entry once made is never changed, moved or
\* removed by a later step, a later failure or the summary.
C20_LedgerAppendOnly ==
    /\ [](\A p \in DOMAIN procs :
              /\ procs[p].pc = "done" =>
                     Len(procs[p].pkgs_done) = Len(procs[p].pkgs_to_build)
              /\ (procs[p].pc = "failed" /\ procs[p].ui >= 1) =>
                     Len(procs[p].pkgs_done) = procs[p].ui)
    /\ [][\A p \in DOMAIN procs :
              IsPrefix(procs[p].pkgs_done, procs'[p].pkgs_done)]_vars

\* what the ledger holds until the summary: one entry for every unit that has
\* finished without an error, in order, and none for the unit that failed
C20_LedgerOfFinishedUnits ==
    \A p \in DOMAIN procs :
        procs[p].pc # "done" =>
            /\ Len(procs[p].pkgs_done) =
                   (IF procs[p].ui = 0 THEN 0 ELSE procs[p].ui - 1)
            /\ \A i \in DOMAIN procs[p].pkgs_done :
                   procs[p].pkgs_done[i] = DoneEntry(procs[p].pkgs_to_build[i])

\* the summary step puts the directory of a unit kept in a sub-directory into the
\* ledger, in front of the entry of that unit
C20_SummaryInserts ==
    /\ procs[1].pc = "done"
    /\ procs[1].pkgs_to_build = <<1, 2>>
    /\ procs[1].pkgs_done = <<<<1>>, <<2>>, DoneEntry(2)>>

(***************************************************************************)
(* fetch_src, downloader.py:251-337.  A package of the batch is known by   *)
(* its place in the batch; its tarball, its failure marker and its vcs     *)
(* checkout have paths of their own (download_name).  The directory is     *)
(* kept between calls.                                                     *)
(***************************************************************************)
\* package.spec: DUMMYSRC, SRCTBL with or without CHKSUM, a <vcs>SRC, or nothing
SourceKinds == {"dummy", "tarball", "vcs", "none"}

\* the file at the tarball path: absent, or present with a digest that is the
\* declared one or another one
FileStates == {"absent", "match", "other"}

\* the locals of fetch_src at line 252-254
FetchLocals(run) ==
    [pc |-> "scan", run |-> run, tarballs |-> <<>>, result_paths |-> <<>>,
     tasks |-> <<>>, dirname |-> 0, excs |-> <<>>, raised |-> [kind |-> "none"]]

InitFetch ==
    /\ IdleTopo
    /\ IdleBuild
    /\ IdleResolve
    /\ IdleRetry
    /\ IdleDownloader
    /\ \E n \in 1..MaxBatch :
          /\ packages \in [1..n -> [src : SourceKinds, chksum : BOOLEAN]]
          /\ fs \in [1..n -> [file : FileStates, failed : BOOLEAN, dir : BOOLEAN]]
    /\ \A i \in DOMAIN packages :
          /\ packages[i].src # "tarball" =>
                 /\ ~packages[i].chksum
                 /\ fs[i].file = "absent" /\ ~fs[i].failed
          /\ packages[i].src # "vcs" => ~fs[i].dir
    /\ fetch = FetchLocals(1)

\* utils.BuildError(package, code, message) of the class named
BuildError(cls, package, code, message) ==
    [cls |-> cls, package |-> package, code |-> code, message |-> message]

\* lines 255-281: the loop over the packages; st holds tarballs, result_paths,
\* tasks, dirname and the directory.  The state after the loop, or the
\* MetadataError of line 281 with the state it leaves
RECURSIVE ScanPackages(_, _)
ScanPackages(i, st) ==
    IF i > Len(packages) THEN [kind |-> "ok", st |-> st]
    ELSE IF packages[i].src = "dummy" THEN ScanPackages(i + 1, st)
    ELSE IF packages[i].src = "tarball"
    THEN ScanPackages(i + 1,
             [st EXCEPT !.tarballs = Append(@, i),
                        !.result_paths = Append(@, <<i, TRUE>>),
                        !.fs = IF st.fs[i].failed
                               THEN [@ EXCEPT ![i].failed = FALSE,
                                              ![i].file = "absent"]
                               ELSE @])
    ELSE IF packages[i].src = "vcs"
    THEN ScanPackages(i + 1,
             [st EXCEPT !.tasks = Append(@, i),
                        !.result_paths = Append(@, <<i, FALSE>>),
                        !.dirname = i])
    ELSE [kind |-> "raise", st |-> st,
          error |-> BuildError("MetadataError", i, 101, "no source defined")]

\* fetch_src, lines 252-281
FetchScan ==
    /\ fetch.pc = "scan"
    /\ LET r == ScanPackages(1, [tarballs |-> <<>>, result_paths |-> <<>>,
                                 tasks |-> <<>>, dirname |-> 0, fs |-> fs])
       IN /\ fs' = r.st.fs
          /\ fetch' = [fetch EXCEPT
                 !.tarballs = r.st.tarballs,
                 !.result_paths = r.st.result_paths,
                 !.tasks = r.st.tasks,
                 !.dirname = r.st.dirname,
                 !.pc = IF r.kind = "ok" THEN "submit" ELSE "raised",
                 !.raised = IF r.kind = "ok" THEN @
                            ELSE [kind |-> "BuildError", error |-> r.error]]
    /\ UNCHANGED packages
    /\ UNCHANGED nonFetchVars

\* line 285-286: the task of the tarballs, a tuple of four members built with the
\* local dirname, which is bound only when a vcs package came before
TarballTask(dirname) ==
    IF dirname = 0 THEN [kind |-> "UnboundLocalError", name |-> "dirname"]
    ELSE [kind |-> "task", members |-> <<"None", dirname, "get_files", "None">>]

\* line 287-288: for package, dirname, task in tasks
Unpack3(task) ==
    IF Len(task.members) = 3 THEN [kind |-> "ok"] ELSE [kind |-> "ValueError"]

\* downloader.get_repo run for a vcs package (lines 126-129): with the checkout
\* present it clones into it, which succeeds or raises; without it it runs the
\* update command in a directory that does not exist, which raises
RepoTaskOutcomes(isdir) == IF isdir THEN BOOLEAN ELSE {FALSE}

\* lines 282-305: the tasks are submitted and awaited; the checkout of a vcs
\* package whose task raised is removed
FetchSubmit ==
    /\ fetch.pc = "submit"
    /\ IF fetch.tarballs # <<>>
       THEN LET t == TarballTask(fetch.dirname)
            IN IF t.kind # "task"
               THEN /\ fetch' = [fetch EXCEPT !.pc = "raised", !.raised = t]
                    /\ fs' = fs
               ELSE /\ fetch' = [fetch EXCEPT !.pc = "raised",
                                    !.tasks = Append(@, 0),
                                    !.raised = Unpack3(t)]
                    /\ fs' = fs
       ELSE \E ok \in [Range(fetch.tasks) -> BOOLEAN] :
               /\ \A i \in Range(fetch.tasks) : ok[i] \in RepoTaskOutcomes(fs[i].dir)
               /\ fs' = [i \in DOMAIN fs |->
                            IF i \in Range(fetch.tasks) /\ ~ok[i]
                            THEN [fs[i] EXCEPT !.dir = FALSE] ELSE fs[i]]
               /\ fetch' = [fetch EXCEPT !.pc = "verify"]
    /\ UNCHANGED packages
    /\ UNCHANGED nonFetchVars

\* utils.chksum_file(self, hash_type, target_file) called with the arguments given
chksum_file(argv, file) ==
    IF Len(argv) # 3 THEN [kind |-> "TypeError"]
    ELSE [kind |-> "digest", value |-> file]

\* lines 308-335: the loop over result_paths; the errors collected, or the error
\* that leaves the loop
RECURSIVE CheckResults(_, _)
CheckResults(k, excs) ==
    IF k > Len(fetch.result_paths) THEN [kind |-> "ok", excs |-> excs, marks |-> {}]
    ELSE LET i == fetch.result_paths[k][1]
             istarball == fetch.result_paths[k][2]
         IN IF ~istarball
            THEN CheckResults(k + 1,
                     IF ~fs[i].dir
                     THEN Append(excs, BuildError("BuildProcessError", i, 201,
                                                  "failed to get vcs source"))
                     ELSE excs)
            ELSE IF fs[i].file = "absent"
            THEN CheckResults(k + 1,
                     Append(excs, BuildError("BuildProcessError", i, 201,
                                             "failed to get tarball")))
            ELSE LET target_hash == chksum_file(<<"hash_type", "path">>, fs[i].file)
                 IN IF target_hash.kind # "digest"
                    THEN [kind |-> "raise", error |-> target_hash]
                    ELSE IF ~packages[i].chksum
                    THEN LET r == CheckResults(k + 1,
                                      Append(excs, BuildError("MetadataError", i, 113,
                                                 "no checksum found for tarball")))
                         IN IF r.kind = "ok"
                            THEN [r EXCEPT !.marks = @ \cup {i}] ELSE r
                    ELSE IF target_hash.value # "match"
                    THEN LET r == CheckResults(k + 1,
                                      Append(excs, BuildError("BuildProcessError", i, 201,
                                                 "tarball checksum mismatch")))
                         IN IF r.kind = "ok"
                            THEN [r EXCEPT !.marks = @ \cup {i}] ELSE r
                    ELSE CheckResults(k + 1, excs)

\* lines 307-337: the results are checked, markers are left, and the errors are
\* raised together
FetchVerify ==
    /\ fetch.pc = "verify"
    /\ LET r == CheckResults(1, <<>>)
       IN IF r.kind = "raise"
          THEN /\ fetch' = [fetch EXCEPT !.pc = "raised", !.raised = r.error]
               /\ fs' = fs
          ELSE /\ fs' = [i \in DOMAIN fs |->
                            IF i \in r.marks THEN [fs[i] EXCEPT !.failed = TRUE]
                            ELSE fs[i]]
               /\ fetch' = [fetch EXCEPT
                      !.excs = r.excs,
                      !.pc = IF r.excs # <<>> THEN "raised" ELSE "returned",
                      !.raised = IF r.excs # <<>>
                                 THEN [kind |-> "MultipleBuildError", excs |-> r.excs]
                                 ELSE @]
    /\ UNCHANGED packages
    /\ UNCHANGED nonFetchVars

\* fetch_src is called again for the same batch and directory
FetchAgain ==
    /\ fetch.pc \in {"returned", "raised"}
    /\ fetch.run < MaxRuns
    /\ fetch' = FetchLocals(fetch.run + 1)
    /\ UNCHANGED <<packages, fs>>
    /\ UNCHANGED nonFetchVars

NextFetch ==
    \/ FetchScan
    \/ FetchSubmit
    \/ FetchVerify
    \/ FetchAgain

SpecFetch == InitFetch /\ [][NextFetch]_vars

(***************************************************************************)
(* Properties of fetch_src                                                 *)
(***************************************************************************)
FetchEnded == fetch.pc \in {"returned", "raised"}

\* the sources of the batch are all defined
AllDefined == \A i \in DOMAIN packages : packages[i].src # "none"

\* C21: a tarball whose digest differs from the declared one is reported by
\* fetch_src as an error of class BuildResultError for its package.
C21_MismatchReported ==
    \A i \in DOMAIN packages :
        (/\ FetchEnded
         /\ AllDefined
         /\ packages[i].src = "tarball"
         /\ packages[i].chksum
         /\ fs[i].file = "other") =>
            /\ fetch.raised.kind = "MultipleBuildError"
            /\ \E k \in DOMAIN fetch.raised.excs :
                  /\ fetch.raised.excs[k].package = i
                  /\ fetch.raised.excs[k].cls = "BuildResultError"

\* what fetch_src does with a batch that holds a tarball: it raises at line 286 or
\* 287, before any file is fetched or checked
C21_TarballBatchRaises ==
    (FetchEnded /\ AllDefined /\ \E i \in DOMAIN packages : packages[i].src = "tarball") =>
        /\ fetch.raised.kind \in {"UnboundLocalError", "ValueError"}
        /\ fetch.excs = <<>>

\* C22: a tarball that failed the checksum check, or had no declared checksum, is
\* not taken as a valid cached file by a later call: the call that found it leaves
\* a failure marker, and the next call removes marker and file before fetching.
C22_FailedTarballMarked ==
    \A i \in DOMAIN packages :
        /\ (/\ FetchEnded
            /\ AllDefined
            /\ packages[i].src = "tarball"
            /\ fs[i].file # "absent"
            /\ ~packages[i].chksum \/ fs[i].file = "other") => fs[i].failed
        /\ (fetch.pc \in {"submit", "verify"} /\ packages[i].src = "tarball") =>
               ~fs[i].failed

\* the part of C22 that the code keeps: a marker found by the first loop is
\* removed, and no tarball is marked while the tasks run
C22_MarkerRemovedByScan ==
    \A i \in DOMAIN packages :
        (fetch.pc \in {"submit", "verify"} /\ packages[i].src = "tarball") =>
            ~fs[i].failed

\* the package fails in this call: no source defined; no tarball file, no declared
\* checksum or another digest; no checkout
Failing(i) ==
    \/ packages[i].src = "none"
    \/ /\ packages[i].src = "tarball"
       /\ fs[i].file = "absent" \/ ~packages[i].chksum \/ fs[i].file = "other"
    \/ packages[i].src = "vcs" /\ ~fs[i].dir

\* C23: the error raised at the end of fetch_src holds one entry for every
\* package of the batch that failed, and only for those.
C23_AllFailuresReported ==
    (FetchEnded /\ \E i \in DOMAIN packages : Failing(i)) =>
        /\ fetch.raised.kind = "MultipleBuildError"
        /\ {fetch.raised.excs[k].package : k \in DOMAIN fetch.raised.excs}
               = {i \in DOMAIN packages : Failing(i)}
        /\ Len(fetch.raised.excs) = Cardinality({i \in DOMAIN packages : Failing(i)})

\* the part of C23 that the code keeps: a batch of vcs and dummy packages gets one
\* entry for each vcs package without a checkout, in batch order
C23_VcsFailuresReported ==
    (FetchEnded /\ \A i \in DOMAIN packages : packages[i].src \in {"vcs", "dummy"}) =>
        LET failed == {i \in DOMAIN packages : Failing(i)}
        IN IF failed = {} THEN fetch.pc = "returned"
           ELSE /\ fetch.raised.kind = "MultipleBuildError"
                /\ Len(fetch.raised.excs) = Cardinality(failed)
                /\ \A k \in DOMAIN fetch.raised.excs :
                      /\ fetch.raised.excs[k].package \in failed
                      /\ \A j \in DOMAIN fetch.raised.excs :
                            j < k => fetch.raised.excs[j].package
                                         < fetch.raised.excs[k].package

(***************************************************************************)
(* retry, utils.py:108-139: f_retry, the wrapper that the decorator puts   *)
(* around f.  A call of f returns a value, raises an exception of class    *)
(* exc, or raises another exception.                                       *)
(***************************************************************************)
InitRetry ==
    /\ IdleTopo
    /\ IdleBuild
    /\ IdleResolve
    /\ IdleFetch
    /\ IdleDownloader
    /\ retry_args \in [tries : 0..MaxTries, delay : 1..MaxDelay,
                       backoff : 2..MaxBackoff, raises : BOOLEAN]
    /\ f_retry = [pc |-> "for", t |-> 0, rv |-> [kind |-> "unbound"],
                  log |-> <<>>, slept |-> <<>>, result |-> [kind |-> "none"]]

LastTryNever(t, tries) == FALSE

\* if t == tries - 1
LastTry(t, tries) == t = tries - 1

sleep_time_linear(delay, backoff, t) == delay * backoff * t

\* delay * (backoff ** t)
sleep_time(delay, backoff, t) == delay * (backoff ^ t)

\* lines 123-133: one turn of the loop, f is called
RetryCall ==
    /\ f_retry.pc = "for"
    /\ f_retry.t < retry_args.tries
    /\ \E outcome \in {"value", "exc", "other"} :
          LET log == Append(f_retry.log, outcome)
              n == Len(log)
          IN IF outcome = "value"
             THEN f_retry' = [f_retry EXCEPT !.log = log, !.pc = "done",
                      !.rv = [kind |-> "value", call |-> n],
                      !.result = [kind |-> "returned",
                                  value |-> [kind |-> "value", call |-> n]]]
             ELSE IF outcome = "other"
             THEN f_retry' = [f_retry EXCEPT !.log = log, !.pc = "done",
                      !.result = [kind |-> "raised", class |-> "other", call |-> n]]
             ELSE IF LastTry(f_retry.t, retry_args.tries)
             THEN IF retry_args.raises
                  THEN f_retry' = [f_retry EXCEPT !.log = log, !.pc = "done",
                           !.result = [kind |-> "raised", class |-> "exc", call |-> n]]
                  ELSE f_retry' = [f_retry EXCEPT !.log = log, !.pc = "done",
                           !.result = [kind |-> "returned", value |-> [kind |-> "None"]]]
             ELSE f_retry' = [f_retry EXCEPT !.log = log, !.pc = "sleep"]
    /\ UNCHANGED retry_args
    /\ UNCHANGED nonRetryVars

\* lines 134-136: time.sleep(delay * (backoff ** t)); continue
RetrySleep ==
    /\ f_retry.pc = "sleep"
    /\ f_retry' = [f_retry EXCEPT !.pc = "for", !.t = @ + 1,
           !.slept = Append(@, sleep_time(retry_args.delay, retry_args.backoff,
                                          f_retry.t))]
    /\ UNCHANGED retry_args
    /\ UNCHANGED nonRetryVars

\* line 123 and 138: range(tries) is used up; return rv
RetryExhausted ==
    /\ f_retry.pc = "for"
    /\ f_retry.t >= retry_args.tries
    /\ f_retry' = [f_retry EXCEPT !.pc = "done",
           !.result = IF f_retry.rv.kind = "unbound"
                      THEN [kind |-> "raised", class |-> "UnboundLocalError", call |-> 0]
                      ELSE [kind |-> "returned", value |-> f_retry.rv]]
    /\ UNCHANGED retry_args
    /\ UNCHANGED nonRetryVars

NextRetry ==
    \/ RetryCall
    \/ RetrySleep
    \/ RetryExhausted

SpecRetry == InitRetry /\ [][NextRetry]_vars

(***************************************************************************)
(* Properties of retry                                                     *)
(***************************************************************************)
\* the calls of f that raised exc
ExcCalls == {k \in DOMAIN f_retry.log : f_retry.log[k] = "exc"}

\* C24: for tries >= 1, f is called at most tries times and not again after its
\* first successful call, whose value is returned; when all tries calls raise exc
\* the last exception leaves f_retry if raises is true, and f_retry returns
\* without raising if raises is false.
C24_RetryCalls ==
    retry_args.tries >= 1 =>
        /\ Len(f_retry.log) <= retry_args.tries
        /\ \A k \in DOMAIN f_retry.log : k < Len(f_retry.log) => f_retry.log[k] = "exc"
        /\ f_retry.pc = "done" =>
              /\ f_retry.log # <<>>
              /\ f_retry.log[Len(f_retry.log)] = "value" =>
                     f_retry.result =
                         [kind |-> "returned",
                          value |-> [kind |-> "value", call |-> Len(f_retry.log)]]
              /\ f_retry.log[Len(f_retry.log)] = "exc" =>
                     /\ Len(f_retry.log) = retry_args.tries
                     /\ f_retry.result =
                            IF retry_args.raises
                            THEN [kind |-> "raised", class |-> "exc",
                                  call |-> retry_args.tries]
                            ELSE [kind |-> "returned", value |-> [kind |-> "None"]]

\* f raised exc three times and the third exception has left f_retry
C24_Witness ==
    /\ f_retry.pc = "done"
    /\ retry_args.tries = 3
    /\ retry_args.raises
    /\ f_retry.log = <<"exc", "exc", "exc">>
    /\ f_retry.result = [kind |-> "raised", class |-> "exc", call |-> 3]

\* C25: after the failed attempt t (counted from 0) that is not the last one
\* allowed, f_retry sleeps delay * backoff^t before the next attempt: the sleeps
\* are delay, delay*backoff, delay*backoff^2, ...; there is none before the first
\* attempt and none after the last failed attempt.
C25_ExponentialBackoff ==
    /\ \A k \in DOMAIN f_retry.slept :
           f_retry.slept[k] = retry_args.delay * (retry_args.backoff ^ (k - 1))
    /\ f_retry.pc \in {"for", "done"} =>
           Len(f_retry.slept) =
               Cardinality(ExcCalls \ {retry_args.tries})
    /\ f_retry.pc = "sleep" =>
           /\ Len(f_retry.slept) = Cardinality(ExcCalls) - 1
           /\ Len(f_retry.log) < retry_args.tries
    /\ f_retry.pc = "for" => Len(f_retry.log) = Len(f_retry.slept)

\* two failed attempts were followed by sleeps of delay and delay*backoff, the
\* third and last one by none
C25_Witness ==
    /\ f_retry.pc = "done"
    /\ retry_args = [tries |-> 3, delay |-> 2, backoff |-> 3, raises |-> TRUE]
    /\ f_retry.log = <<"exc", "exc", "exc">>
    /\ f_retry.slept = <<2, 6>>

(***************************************************************************)
(* Properties of the leveling: the reversal                                *)
(***************************************************************************)
\* C26: the level list that is used is exactly the reverse of the sequence of
\* levels the leveler yielded for the so-break mapping: the first level used is
\* the last one yielded, and for every key k with a prerequisite p that is a key
\* too, both placed in a level, k's level comes strictly before p's level.
C26_ReversedLevels ==
    tpc \in {"sortkeys", "done"} =>
        LET n == Len(sobreaks)
        IN /\ \A i \in 1..n :
                 Range(sobreaks[i]) =
                     {k \in DOMAIN res \ Unresolvable(res) : Depth(res, k) = n + 1 - i}
           /\ \A k \in DOMAIN res \ Unresolvable(res) :
                 /\ LevelOf(sobreaks, k) # 0
                 /\ \A p \in res[k] \cap DOMAIN res :
                        /\ LevelOf(sobreaks, p) # 0
                        /\ LevelOf(sobreaks, k) < LevelOf(sobreaks, p)
           /\ ~HasCycle(res) => Unresolvable(res) = {}

\* a mapping with a chain of two prerequisites between keys has been leveled and
\* the three levels reversed
C26_Witness ==
    /\ tpc = "done"
    /\ Len(sobreaks) = 3
    /\ \E k \in DOMAIN res : \E p \in res[k] \cap DOMAIN res :
           LevelOf(sobreaks, k) = 1 /\ LevelOf(sobreaks, p) = 2

(***************************************************************************)
(* Properties of the orchestration: pending chain and termination          *)
(***************************************************************************)
\* the process is building a unit
Building(p) == procs[p].pc \in {"main", "spawn", "join", "check", "exec", "record"}

\* the units under construction by the ancestors of p, the first process first
RECURSIVE AncestorUnits(_)
AncestorUnits(p) ==
    IF procs[p].parent = 0 THEN <<>>
    ELSE Append(AncestorUnits(procs[p].parent), Unit(procs[p].parent))

\* C27 as stated: the pending chain of a process is exactly the sequence of the
\* units under construction by the process and its ancestors; a sub-build gets
\* its parent's chain extended by the parent's current unit and a build scoped to
\* the one dependency, and the chain of a process never changes.
C27_ChainIsCallStack ==
    /\ [](\A p \in DOMAIN procs :
              /\ (Live(p) /\ Building(p)) =>
                     procs[p].pending = Append(AncestorUnits(p), Unit(p))
              /\ procs[p].parent # 0 => Len(procs[p].pkgs_name) = 1)
    /\ [][\A p \in DOMAIN procs : procs'[p].pending = procs[p].pending]_vars

\* C27, amended: the pending chain of a process is exactly the sequence of the
\* units under construction by its ancestors, the first process first, without
\* the unit the process itself is building; a sub-build gets its parent's chain
\* extended at the end by the parent's current unit and a build scoped to the one
\* dependency, and no step changes the chain of a process.
C27_ChainOfAncestors ==
    /\ [](\A p \in DOMAIN procs :
              /\ Live(p) => procs[p].pending = AncestorUnits(p)
              /\ procs[p].parent # 0 =>
                     /\ Len(procs[p].pkgs_name) = 1
                     /\ procs[p].pending # <<>>
                     /\ procs[p].pkgs_name[1] \in
                            unmet[procs[p].pending[Len(procs[p].pending)]])
    /\ [][\A p \in DOMAIN procs : procs'[p].pending = procs[p].pending]_vars

\* a sub-build of a sub-build is running with the chain of its two ancestors' units
C27_Witness ==
    \E p \in DOMAIN procs :
        /\ Live(p)
        /\ Building(p)
        /\ Len(procs[p].pending) = 2
        /\ procs[p].pending = AncestorUnits(p)
        /\ procs[procs[p].parent].pc = "join"

\* C28: every build request terminates, whatever the unmet-dependency relation,
\* cycles and self-dependencies included: from some point on every process that
\* was started has ended as done or failed; and the nesting depth of the
\* processes, the first one counted, never exceeds the number of packages plus one.
C28_Terminates ==
    /\ <>[](\A p \in DOMAIN procs : ~Live(p))
    /\ [](\A p \in DOMAIN procs : Len(procs[p].pending) + 1 <= NPkgs + 1)

\* a cycle through all the packages was followed to the deepest process, which
\* raised the loop error, and every process has ended
C28_Witness ==
    /\ \A p \in DOMAIN procs : ~Live(p)
    /\ \E p \in DOMAIN procs :
           /\ Len(procs[p].pending) = NPkgs
           /\ procs[p].error.kind = "loop"
    /\ procs[1].pc = "failed"

(***************************************************************************)
(* BaseDownloader.dispatch (downloader.py:13-32) on the classes that call  *)
(* it: FileDownloader, BatchFileDownloader and BazaarBaseDownloader.       *)
(***************************************************************************)
\* the classes whose methods call self.dispatch (lines 46, 59, 203-209)
DispatchClasses == {"FileDownloader", "BatchFileDownloader", "BazaarBaseDownloader"}

\* cls.__subclasses__(): the direct subclasses in the order of their definition
subclasses(cls) ==
    CASE cls = "FileDownloader" -> <<"WgetDownloader", "AxelDownloader">>
      [] cls = "BatchFileDownloader" -> <<"Aria2Downloader", "MultiprocessDownloader">>
      [] cls = "BazaarBaseDownloader" -> <<"BazaarDownloader", "BreezyDownloader">>
      [] OTHER -> <<>>

\* the class attribute priority of each implementation
priority(impl) ==
    CASE impl = "WgetDownloader" -> 1
      [] impl = "AxelDownloader" -> 3
      [] impl = "Aria2Downloader" -> 2
      [] impl = "MultiprocessDownloader" -> 1
      [] impl = "BazaarDownloader" -> 1
      [] impl = "BreezyDownloader" -> 2
      [] OTHER -> 0

\* the class attribute program_name: MultiprocessDownloader sets none and
\* inherits program_name = None of BaseDownloader (line 14)
program_name(impl) ==
    CASE impl = "WgetDownloader" -> "wget"
      [] impl = "AxelDownloader" -> "axel"
      [] impl = "Aria2Downloader" -> "aria2c"
      [] impl = "BazaarDownloader" -> "bzr"
      [] impl = "BreezyDownloader" -> "brz"
      [] OTHER -> "None"

\* the programs the implementations name
Programs == {"wget", "axel", "aria2c", "bzr", "brz"}

\* the methods the classes dispatch
Methods(cls) ==
    CASE cls = "FileDownloader" -> {"get_file"}
      [] cls = "BatchFileDownloader" -> {"get_files"}
      [] cls = "BazaarBaseDownloader" -> {"_clone", "_update", "_checkout"}
      [] OTHER -> {}

\* bool(shutil.which(cls.program_name)): shutil.which(None) raises TypeError
is_available(impl, w) ==
    IF program_name(impl) = "None"
    THEN [kind |-> "raised", class |-> "TypeError"]
    ELSE [kind |-> "value", value |-> w[program_name(impl)]]

\* sorted(cls.__subclasses__(), key=lambda x: -x.priority): a stable sort
RECURSIVE sorted_priority(_)
sorted_priority(s) ==
    IF s = <<>> THEN <<>>
    ELSE LET rest == sorted_priority(Tail(s))
             before == SelectSeq(rest, LAMBDA x : priority(x) > priority(Head(s)))
             after == SelectSeq(rest, LAMBDA x : priority(x) <= priority(Head(s)))
         IN  before \o <<Head(s)>> \o after

\* the for loop of lines 26-31 from the i-th implementation on: the first
\* available one ends it, an exception of is_available leaves it, and the else
\* branch raises NotImplementedError
RECURSIVE Probe(_, _, _, _)
Probe(i, order, w, probed) ==
    IF i > Len(order)
    THEN [kind |-> "raised", class |-> "NotImplementedError", probed |-> probed]
    ELSE LET a == is_available(order[i], w)
             seen == Append(probed, order[i])
         IN  IF a.kind = "raised"
             THEN [kind |-> "raised", class |-> a.class, probed |-> seen]
             ELSE IF a.value
                  THEN [kind |-> "found", impl |-> order[i], probed |-> seen]
                  ELSE Probe(i + 1, order, w, seen)

InitDispatch ==
    /\ IdleTopo
    /\ IdleBuild
    /\ IdleResolve
    /\ IdleFetch
    /\ IdleRetry
    /\ IdleRepo
    /\ which \in [Programs -> BOOLEAN]
    /\ dispatch_cached = [cls \in DispatchClasses |-> "None"]
    /\ dcall = [pc |-> "ready", calls |-> 0, cls |-> "None", method |-> "None",
                probed |-> <<>>, result |-> [kind |-> "none"]]

\* dispatch(cls, method), lines 23-32
Dispatch(cls, method) ==
    /\ dcall.pc # "idle"
    /\ dcall.calls < MaxCalls
    /\ LET cached == dispatch_cached[cls]
           r == IF cached # "None"
                THEN [kind |-> "found", impl |-> cached, probed |-> <<>>]
                ELSE Probe(1, sorted_priority(subclasses(cls)), which, <<>>)
       IN  /\ dispatch_cached' =
                  IF cached = "None" /\ r.kind = "found"
                  THEN [dispatch_cached EXCEPT ![cls] = r.impl]
                  ELSE dispatch_cached
           /\ dcall' = [pc |-> IF r.kind = "found" THEN "returned" ELSE "raised",
                        calls |-> dcall.calls + 1,
                        cls |-> cls,
                        method |-> method,
                        probed |-> r.probed,
                        result |-> IF r.kind = "found"
                                   THEN [kind |-> "method", impl |-> r.impl,
                                         name |-> method]
                                   ELSE [kind |-> "raised", class |-> r.class]]
    /\ UNCHANGED which
    /\ UNCHANGED nonDispatchVars

\* between two calls a program is installed or removed: shutil.which reads the
\* PATH of the moment
WhichChanges(prog) ==
    /\ dcall.pc # "idle"
    /\ dcall.calls < MaxCalls
    /\ which' = [which EXCEPT ![prog] = ~@]
    /\ UNCHANGED <<dispatch_cached, dcall>>
    /\ UNCHANGED nonDispatchVars

NextDispatch ==
    \/ \E cls \in DispatchClasses : \E method \in Methods(cls) : Dispatch(cls, method)
    \/ \E prog \in Programs : WhichChanges(prog)

SpecDispatch == InitDispatch /\ [][NextDispatch]_vars

(***************************************************************************)
(* Properties of dispatch                                                  *)
(***************************************************************************)
\* the direct subclasses of cls that shutil.which finds
Available(cls, w) ==
    {impl \in Range(subclasses(cls)) :
        program_name(impl) # "None" /\ w[program_name(impl)]}

\* the dispatch rule for one call of dispatch on cls: the step from the state
\* before the call to the state after it
DispatchRule(cls) ==
    (dcall'.calls = dcall.calls + 1 /\ dcall'.cls = cls) =>
        IF dispatch_cached[cls] # "None"
        THEN /\ dcall'.result = [kind |-> "method", impl |-> dispatch_cached[cls],
                                 name |-> dcall'.method]
             /\ dcall'.probed = <<>>
             /\ dispatch_cached' = dispatch_cached
        ELSE IF Available(cls, which) # {}
        THEN /\ dcall'.result.kind = "method"
             /\ dcall'.result.name = dcall'.method
             /\ dcall'.result.impl \in Available(cls, which)
             /\ \A o \in Available(cls, which) :
                    priority(o) <= priority(dcall'.result.impl)
             /\ dispatch_cached' =
                    [dispatch_cached EXCEPT ![cls] = dcall'.result.impl]
        ELSE /\ dcall'.result = [kind |-> "raised", class |-> "NotImplementedError"]
             /\ dispatch_cached' = dispatch_cached

\* C29: dispatch returns the requested method of the available direct subclass
\* with the highest priority and caches that subclass; a later dispatch on the
\* class returns the method of the cached subclass without probing, whatever is
\* available by then; with no subclass available it raises NotImplementedError
\* and caches nothing.
C29_DispatchRule == [][\A cls \in DispatchClasses : DispatchRule(cls)]_vars

\* the rule holds for the classes all of whose subclasses name a program
C29_DispatchRuleWithPrograms ==
    [][\A cls \in {"FileDownloader", "BazaarBaseDownloader"} : DispatchRule(cls)]_vars

\* and for BatchFileDownloader as long as aria2c is found or was cached
C29_DispatchRuleAria2 ==
    [][(which["aria2c"] \/ dispatch_cached["BatchFileDownloader"] # "None")
          => DispatchRule("BatchFileDownloader")]_vars

\* dispatch on BatchFileDownloader without aria2c ends in the TypeError of
\* shutil.which(None), raised by MultiprocessDownloader.is_available
C29_BatchWithoutAria2 ==
    (/\ dcall.pc = "raised"
     /\ dcall.cls = "BatchFileDownloader")
        => /\ dcall.result = [kind |-> "raised", class |-> "TypeError"]
           /\ dcall.probed = <<"Aria2Downloader", "MultiprocessDownloader">>
           /\ dispatch_cached["BatchFileDownloader"] = "None"

(***************************************************************************)
(* VCSDownloader.get_repo (downloader.py:124-131) on the downloaders of    *)
(* VCS_MAP.                                                                *)
(***************************************************************************)
\* the keys of VCS_MAP (lines 235-241)
VCS_MAP == {"SVN", "GIT", "HG", "BZR", "FSL"}

\* package.spec.get(...): None, or the string of the spec, which may be empty
NoneValue == [kind |-> "None"]

Str(s) == [kind |-> "str", value |-> s]

\* the truth value Python gives an argument: None and '' are false
truthy(v) == v.kind = "str" /\ v.value # ""

\* clone(url, path) called with the path being a directory: FossilDownloader
\* starts with os.mkdir(path), which raises FileExistsError; the other
\* programs succeed or fail
CloneOutcomes(vcs, isdir) ==
    IF vcs = "FSL" /\ isdir THEN {FALSE} ELSE BOOLEAN

\* update(path) runs the program with cwd=path: without the directory
\* subprocess.run raises
UpdateOutcomes(isdir) == IF isdir THEN BOOLEAN ELSE {FALSE}

InitRepo ==
    /\ IdleTopo
    /\ IdleBuild
    /\ IdleResolve
    /\ IdleFetch
    /\ IdleRetry
    /\ IdleDispatch
    /\ \E vcs \in VCS_MAP, isdir \in BOOLEAN,
          checkout \in {NoneValue, Str(""), Str("r1")},
          branch \in {NoneValue, Str(""), Str("b1")} :
          repo = [pc |-> "isdir", vcs |-> vcs, isdir |-> isdir,
                  checkout |-> checkout, branch |-> branch, log |-> <<>>]

\* lines 126-129: if os.path.isdir(path): self.clone(url, path)
\*                else: self.update(path)
GetRepoCloneOrUpdate ==
    /\ repo.pc = "isdir"
    /\ IF repo.isdir
       THEN \E ok \in CloneOutcomes(repo.vcs, repo.isdir) :
               repo' = [repo EXCEPT !.pc = IF ok THEN "checkout" ELSE "raised",
                                    !.log = Append(@, [cmd |-> "clone"])]
       ELSE \E ok \in UpdateOutcomes(repo.isdir) :
               repo' = [repo EXCEPT !.pc = IF ok THEN "checkout" ELSE "raised",
                                    !.log = Append(@, [cmd |-> "update"])]
    /\ UNCHANGED nonRepoVars

\* lines 130-131: if checkout or branch: self.checkout(checkout, branch), the
\* two values taking the places of the parameters path and name of checkout
GetRepoCheckout ==
    /\ repo.pc = "checkout"
    /\ IF truthy(repo.checkout) \/ truthy(repo.branch)
       THEN \E ok \in BOOLEAN :
               repo' = [repo EXCEPT !.pc = IF ok THEN "returned" ELSE "raised",
                                    !.log = Append(@, [cmd |-> "checkout",
                                                       path |-> repo.checkout,
                                                       name |-> repo.branch,
                                                       branch |-> NoneValue])]
       ELSE repo' = [repo EXCEPT !.pc = "returned"]
    /\ UNCHANGED nonRepoVars

NextRepo ==
    \/ GetRepoCloneOrUpdate
    \/ GetRepoCheckout

SpecRepo == InitRepo /\ [][NextRepo]_vars

(***************************************************************************)
(* Properties of get_repo                                                  *)
(***************************************************************************)
\* the commands get_repo has called so far
Called(cmd) == \E k \in DOMAIN repo.log : repo.log[k].cmd = cmd

\* C30: get_repo clones when the target path is not yet a directory and updates
\* when it is, and once that is done it calls checkout exactly when a checkout
\* revision or a branch was given.
C30_GetRepo ==
    /\ repo.log # <<>> =>
          repo.log[1].cmd = IF repo.isdir THEN "update" ELSE "clone"
    /\ repo.pc = "returned" =>
          (Called("checkout") <=> (truthy(repo.checkout) \/ truthy(repo.branch)))

\* the test is the other way round: with the directory present get_repo clones
\* into it, without it it runs update, which raises
C30_CloneWhenPresent ==
    /\ repo.log # <<>> =>
          repo.log[1].cmd = IF repo.isdir THEN "clone" ELSE "update"
    /\ (repo.log # <<>> /\ ~repo.isdir) => repo.pc = "raised"

\* the checkout part holds: a call that returns has called checkout exactly when
\* a non-empty revision or branch was given, after the clone
C30_CheckoutWhenGiven ==
    repo.pc = "returned" =>
        /\ Called("checkout") <=> (truthy(repo.checkout) \/ truthy(repo.branch))
        /\ Called("checkout") => repo.log[Len(repo.log)].cmd = "checkout"
        /\ repo.log[1].cmd = "clone"

\* C31: with tries = 0 a call of f_retry never calls f and completes without
\* raising an error.
C31_ZeroTries ==
    retry_args.tries = 0 =>
        /\ f_retry.log = <<>>
        /\ f_retry.pc = "done" => f_retry.result.kind = "returned"

\* with tries = 0 the loop body never runs, f is not called and rv is never
\* bound: return rv raises UnboundLocalError, whatever raises is
C31_ZeroTriesRaises ==
    (retry_args.tries = 0 /\ f_retry.pc = "done") =>
        /\ f_retry.log = <<>>
        /\ f_retry.slept = <<>>
        /\ f_retry.result =
               [kind |-> "raised", class |-> "UnboundLocalError", call |-> 0]

====
